---- MODULE Spec2Model ----
(***************************************************************************)
(* Model of parliament_summaries: page-wise text extraction (OCR / native) *)
(* and script-aware translation (processing/text_extraction.py,            *)
(* processing/translation.py, processing/pipeline.py).                     *)
(*                                                                         *)
(* Texts are sequences of characters over a small alphabet that keeps the  *)
(* distinctions the code makes: "D" a Devanagari letter (U+0900..U+097F),  *)
(* "A" any other visible character, "SP" a space, "LF" a line feed and     *)
(* "CR" a carriage return (a line boundary for str.splitlines and          *)
(* whitespace for str.strip, like "LF").                                   *)
(***************************************************************************)
EXTENDS Integers, Sequences, FiniteSets, TLC

VARIABLES
    text,        \* the text argument of the last call
    max_chars,   \* argument of _chunk_text (SpecText)
    language,    \* the language argument of the last call: None or Some(code)
    blocks,      \* the PageBlocks given to translate_blocks
    ret,         \* what the last call returned
    \* one TranslationService
    translation_model,   \* settings.translation_model is a non-empty name
    batch_size,          \* settings.batch_size
    available,           \* self._available
    attempted,           \* self._attempted
    tokenizer,           \* self._tokenizer is not None
    model,               \* self._model is not None
    loads,               \* history: number of times from_pretrained was entered
    sent,                \* history: the batches the last call gave to the engine
    before,              \* history: the service's fields and loads when the last call began
    \* threads inside _load_model (SpecConc)
    threads,             \* thread -> [pc, loaded, result]
    \* one TextExtractor and the document it reads
    enable_ocr,          \* settings.enable_ocr
    ocr_languages,       \* settings.ocr_languages, as the sequence of its codes
    max_pages,           \* settings.max_pages; 0 stands for None
    pdf,                 \* the document at pdf_path
    extraction,          \* what extract returned
    \* the process command (SpecPipe)
    targets,             \* len(targets)
    done,                \* process_pdf calls that returned
    phase,               \* where process_pdf is
    original,            \* the file original/<stem>.json: None or Some(pages)
    english,             \* the file english/<stem>.json: None or Some(pages)
    \* one DebateDownloader and one record (SpecDl)
    target,              \* the file at target_path
    stored,              \* the metadata store has the record's downloaded_path
    completed,           \* history: a download of the record wrote the whole file
    calls,               \* download_record calls made
    dl                   \* the download_record call under way

callVars == <<text, max_chars, language, blocks, ret>>

svcVars == <<translation_model, batch_size, available, attempted, tokenizer, model, loads, sent, before>>

concVars == <<threads>>

extVars == <<enable_ocr, ocr_languages, max_pages, pdf, extraction>>

pipeVars == <<targets, done, phase, original, english>>

dlVars == <<target, stored, completed, calls, dl>>

\* what the specifications of the translation service leave alone
restOfSvc == <<concVars, extVars, pipeVars, dlVars>>

vars == <<callVars, svcVars, concVars, extVars, pipeVars, dlVars>>

(***************************************************************************)
(* Bounds of the model.                                                    *)
(***************************************************************************)
MaxTextLen == 5      \* longest text given to _segment_text / _chunk_text
MaxMaxChars == 3     \* largest max_chars given to _chunk_text
MaxCodeLen == 4      \* longest language code given to _lang_tag
MaxSvcTextLen == 4   \* longest text given to translate_text (SpecXlate)
MaxLoads == 2        \* load attempts counted before the count saturates
MaxBlocks == 2       \* most PageBlocks given to translate_blocks
NThreads == 2        \* threads that make their first translation request together
MaxPages == 2        \* most pages of a document
MaxTargets == 2      \* most paths given to the process command
MaxBatchSize == 2    \* largest settings.batch_size
MaxCalls == 4        \* download_record calls made for the record
FileChunks == 2      \* chunks of the PDF at pdf_url

\* _chunk_text's default max_chars is 512 (translation.py:132); the model
\* scales it down to the length of the texts it can enumerate
ScaledMaxChars == 3

\* _batch_chunks' default size (translation.py:151)
DEFAULT_BATCH_SIZE == 4

\* the default of ProcessingSettings.batch_size (config/models.py:30)
SETTINGS_BATCH_SIZE == 2

\* stop_after_attempt(4) of _download_once (ingest/downloader.py:75)
DOWNLOAD_ATTEMPTS == 4

(***************************************************************************)
(* Characters and Python's str primitives.                                 *)
(***************************************************************************)
Alphabet == {"D", "A", "SP", "LF", "CR"}

StrsUpTo(alphabet, n) == UNION {[1..k -> alphabet] : k \in 0..n}

None == <<>>
Some(x) == <<x>>

\* str.isspace for one character
IsSpace(c) == c \in {"SP", "LF", "CR"}

\* a line boundary of str.splitlines
IsLineBreak(c) == c \in {"LF", "CR"}

\* DEVANAGARI_RE.search(s)
HasDevanagari(s) == \E i \in 1..Len(s) : s[i] = "D"

RECURSIVE LStrip(_)
LStrip(s) == IF s # <<>> /\ IsSpace(Head(s)) THEN LStrip(Tail(s)) ELSE s

RECURSIVE RStrip(_)
RStrip(s) ==
    IF s # <<>> /\ IsSpace(s[Len(s)]) THEN RStrip(SubSeq(s, 1, Len(s) - 1)) ELSE s

\* str.strip()
Strip(s) == RStrip(LStrip(s))

\* str.splitlines(): breaks at LF, CR and CR LF; the line after the last
\* break is kept only when it is not empty
RECURSIVE SplitLinesFrom(_, _, _, _)
SplitLinesFrom(s, i, cur, acc) ==
    IF i > Len(s) THEN (IF cur # <<>> THEN Append(acc, cur) ELSE acc)
    ELSE IF s[i] = "CR" /\ i < Len(s) /\ s[i + 1] = "LF"
         THEN SplitLinesFrom(s, i + 2, <<>>, Append(acc, cur))
    ELSE IF IsLineBreak(s[i])
         THEN SplitLinesFrom(s, i + 1, <<>>, Append(acc, cur))
    ELSE SplitLinesFrom(s, i + 1, Append(cur, s[i]), acc)

SplitLines(s) == SplitLinesFrom(s, 1, <<>>, <<>>)

\* "\n".join(parts)
RECURSIVE JoinLF(_)
JoinLF(parts) ==
    IF parts = <<>> THEN <<>>
    ELSE IF Len(parts) = 1 THEN parts[1]
    ELSE parts[1] \o <<"LF">> \o JoinLF(Tail(parts))

(***************************************************************************)
(* TranslationService._segment_text: runs of lines of one classification.  *)
(* A segment is [flag |-> has Devanagari, text |-> the run, joined].       *)
(***************************************************************************)
RECURSIVE SegmentLoop(_, _, _, _, _)
SegmentLoop(lines, i, buffer, current_flag, segments) ==
    IF i > Len(lines)
    THEN IF buffer # <<>>
         THEN Append(segments, [flag |-> current_flag[1], text |-> JoinLF(buffer)])
         ELSE segments
    ELSE LET line == lines[i]
             has_devanagari == HasDevanagari(line)
             flag == IF current_flag = None THEN Some(has_devanagari) ELSE current_flag
         IN IF Some(has_devanagari) = flag
            THEN SegmentLoop(lines, i + 1, Append(buffer, line), flag, segments)
            ELSE SegmentLoop(lines, i + 1, <<line>>, Some(has_devanagari),
                             Append(segments, [flag |-> flag[1], text |-> JoinLF(buffer)]))

segment_text(t) == SegmentLoop(SplitLines(t), 1, <<>>, None, <<>>)

(***************************************************************************)
(* TranslationService._chunk_text: lines packed into chunks.               *)
(***************************************************************************)
\* _chunk_text that forgets the separator when it tests the budget
RECURSIVE ChunkLoopNoSep(_, _, _, _, _, _)
ChunkLoopNoSep(lines, i, current, current_len, chunks, maxc) ==
    IF i > Len(lines)
    THEN IF current # <<>> THEN Append(chunks, JoinLF(current)) ELSE chunks
    ELSE LET line == lines[i]
             line_len == Len(line)
         IN IF current # <<>> /\ current_len + line_len > maxc
            THEN ChunkLoopNoSep(lines, i + 1, <<line>>, line_len,
                                Append(chunks, JoinLF(current)), maxc)
            ELSE ChunkLoopNoSep(lines, i + 1, Append(current, line),
                                current_len + line_len + 1, chunks, maxc)

\* _chunk_text that leaves empty lines out of the chunks
RECURSIVE ChunkLoopSkipEmpty(_, _, _, _, _, _)
ChunkLoopSkipEmpty(lines, i, current, current_len, chunks, maxc) ==
    IF i > Len(lines)
    THEN IF current # <<>> THEN Append(chunks, JoinLF(current)) ELSE chunks
    ELSE IF lines[i] = <<>>
    THEN ChunkLoopSkipEmpty(lines, i + 1, current, current_len, chunks, maxc)
    ELSE IF current # <<>> /\ current_len + Len(lines[i]) + 1 > maxc
    THEN ChunkLoopSkipEmpty(lines, i + 1, <<lines[i]>>, Len(lines[i]),
                            Append(chunks, JoinLF(current)), maxc)
    ELSE ChunkLoopSkipEmpty(lines, i + 1, Append(current, lines[i]),
                            current_len + Len(lines[i]) + 1, chunks, maxc)

RECURSIVE ChunkLoop(_, _, _, _, _, _)
ChunkLoop(lines, i, current, current_len, chunks, maxc) ==
    IF i > Len(lines)
    THEN IF current # <<>> THEN Append(chunks, JoinLF(current)) ELSE chunks
    ELSE LET line == lines[i]
             line_len == Len(line)
         IN IF current # <<>> /\ current_len + line_len + 1 > maxc
            THEN ChunkLoop(lines, i + 1, <<line>>, line_len,
                           Append(chunks, JoinLF(current)), maxc)
            ELSE ChunkLoop(lines, i + 1, Append(current, line),
                           current_len + line_len + 1, chunks, maxc)

chunk_text(t, maxc) == ChunkLoop(SplitLines(t), 1, <<>>, 0, <<>>, maxc)

(***************************************************************************)
(* TranslationService._batch_chunks: chunks[idx : idx + size] for          *)
(* idx = 0, size, 2*size, ...                                              *)
(***************************************************************************)
RECURSIVE batch_chunks(_, _)
batch_chunks(chunks, size) ==
    IF chunks = <<>> THEN <<>>
    ELSE IF Len(chunks) <= size THEN <<chunks>>
    ELSE <<SubSeq(chunks, 1, size)>> \o batch_chunks(SubSeq(chunks, size + 1, Len(chunks)), size)

(***************************************************************************)
(* Language codes are sequences of one-character strings; the table is     *)
(* keyed by the code as a string.                                          *)
(***************************************************************************)
INDIC_LANGUAGE_TAGS ==
    ("hi" :> "hin_Deva") @@ ("hin" :> "hin_Deva") @@
    ("mr" :> "mar_Deva") @@ ("mar" :> "mar_Deva") @@
    ("bn" :> "ben_Beng") @@ ("ben" :> "ben_Beng") @@
    ("ta" :> "tam_Taml") @@ ("tam" :> "tam_Taml") @@
    ("te" :> "tel_Telu") @@ ("tel" :> "tel_Telu") @@
    ("ml" :> "mal_Mlym") @@ ("mal" :> "mal_Mlym") @@
    ("gu" :> "guj_Gujr") @@ ("guj" :> "guj_Gujr") @@
    ("pa" :> "pan_Guru") @@ ("pan" :> "pan_Guru") @@
    ("kn" :> "kan_Knda") @@ ("kan" :> "kan_Knda") @@ ("ka" :> "kan_Knda") @@
    ("or" :> "ory_Orya") @@ ("ory" :> "ory_Orya") @@ ("od" :> "ory_Orya") @@
    ("ne" :> "npi_Deva") @@ ("npi" :> "npi_Deva") @@
    ("as" :> "asm_Beng") @@ ("asm" :> "asm_Beng") @@
    ("ur" :> "urd_Arab") @@ ("urd" :> "urd_Arab") @@
    ("sd" :> "snd_Deva") @@ ("snd" :> "snd_Deva") @@
    ("mai" :> "mai_Deva") @@ ("maithili" :> "mai_Deva") @@
    ("mag" :> "mag_Deva") @@ ("bho" :> "bho_Deva") @@
    ("gom" :> "gom_Deva") @@ ("doi" :> "doi_Deva") @@
    ("en" :> "eng_Latn")

DEFAULT_SOURCE_TAG == "hin_Deva"
TARGET_LANGUAGE_TAG == "eng_Latn"

\* the characters language codes are drawn from
CodeAlphabet == {"h", "i", "n", "e", "H", "I", "N", "E", "x", "-"}

UpperOf == ("h" :> "H") @@ ("i" :> "I") @@ ("n" :> "N") @@ ("e" :> "E")

\* str.lower() / str.upper(), one character
LowerChar(c) == IF \E l \in DOMAIN UpperOf : UpperOf[l] = c
                THEN CHOOSE l \in DOMAIN UpperOf : UpperOf[l] = c
                ELSE c
UpperChar(c) == IF c \in DOMAIN UpperOf THEN UpperOf[c] ELSE c

Lower(s) == [i \in 1..Len(s) |-> LowerChar(s[i])]
Upper(s) == [i \in 1..Len(s) |-> UpperChar(s[i])]

\* s.split("-", 1)[0]: the part before the first hyphen
RECURSIVE BeforeHyphen(_)
BeforeHyphen(s) ==
    IF s = <<>> \/ Head(s) = "-" THEN <<>> ELSE <<Head(s)>> \o BeforeHyphen(Tail(s))

\* the Python str of a sequence of characters
RECURSIVE ToStr(_)
ToStr(s) == IF s = <<>> THEN "" ELSE Head(s) \o ToStr(Tail(s))

\* s[:n]
Prefix(s, n) == SubSeq(s, 1, IF Len(s) < n THEN Len(s) ELSE n)

\* the first candidate that is a key of the table, else the default tag
RECURSIVE FirstInTable(_)
FirstInTable(candidates) ==
    IF candidates = <<>> THEN DEFAULT_SOURCE_TAG
    ELSE IF Head(candidates) # <<>> /\ ToStr(Head(candidates)) \in DOMAIN INDIC_LANGUAGE_TAGS
         THEN INDIC_LANGUAGE_TAGS[ToStr(Head(candidates))]
    ELSE FirstInTable(Tail(candidates))

\* _lang_tag that does not lower-case the code
lang_tag_no_lower(lang) ==
    IF lang = None \/ lang[1] = <<>> THEN DEFAULT_SOURCE_TAG
    ELSE LET normalised == BeforeHyphen(lang[1])
             candidates == <<normalised,
                             IF Len(normalised) >= 3 THEN Prefix(normalised, 3) ELSE normalised,
                             IF Len(normalised) >= 2 THEN Prefix(normalised, 2) ELSE normalised>>
         IN FirstInTable(candidates)

(***************************************************************************)
(* TranslationService._lang_tag.  lang is None or Some(code).              *)
(***************************************************************************)
lang_tag(lang) ==
    IF lang = None \/ lang[1] = <<>> THEN DEFAULT_SOURCE_TAG
    ELSE LET normalised == BeforeHyphen(Lower(lang[1]))
             candidates == <<normalised,
                             IF Len(normalised) >= 3 THEN Prefix(normalised, 3) ELSE normalised,
                             IF Len(normalised) >= 2 THEN Prefix(normalised, 2) ELSE normalised>>
         IN FirstInTable(candidates)

(***************************************************************************)
(* TextExtractor._detect_language; guess is what detect_langs answers on   *)
(* the snippet: Some(code), or None when it raises.                        *)
(***************************************************************************)
detect_language(t, guess) ==
    IF Strip(t) = <<>> THEN None ELSE guess

(***************************************************************************)
(* The translation service.  s is the service's fields,                    *)
(* [available, attempted, tokenizer, model]; cfg is whether a model name   *)
(* is configured.  What the environment decides is given in env:           *)
(*   env.load  how AutoTokenizer/AutoModel.from_pretrained end, when       *)
(*             entered: "ok", "tokenizer_failed" or "model_failed";        *)
(*   env.outs  the decoded outputs of the engine, in the order the inputs  *)
(*             are sent; EngineRaise stands for generate() raising on the  *)
(*             batch that holds this input.                                *)
(***************************************************************************)
LoadOutcomes == {"ok", "tokenizer_failed", "model_failed"}

EngineRaise == <<"RAISE">>

EngineOutputs == {<<>>, <<"SP", "A">>, EngineRaise}

OutAt(env, k) == IF k \in DOMAIN env.outs THEN env.outs[k] ELSE <<>>

Unloaded == [available |-> FALSE, attempted |-> FALSE, tokenizer |-> FALSE, model |-> FALSE]

\* the fields after the try / except / finally of _load_model (lines 99-110)
AfterLoad(outcome) ==
    [available |-> outcome = "ok",
     attempted |-> TRUE,
     tokenizer |-> outcome # "tokenizer_failed",
     model |-> outcome = "ok"]

\* _load_model without the "if self._attempted: return False" guard
load_model_retry(s, cfg, env) ==
    IF s.available THEN [s |-> s, ok |-> TRUE, tried |-> 0]
    ELSE IF ~cfg THEN [s |-> s, ok |-> FALSE, tried |-> 0]
    ELSE [s |-> AfterLoad(env.load), ok |-> env.load = "ok", tried |-> 1]

\* TranslationService._load_model -> [s, ok, tried]
load_model(s, cfg, env) ==
    IF s.available THEN [s |-> s, ok |-> TRUE, tried |-> 0]
    ELSE IF s.attempted THEN [s |-> s, ok |-> FALSE, tried |-> 0]
    ELSE IF ~cfg THEN [s |-> s, ok |-> FALSE, tried |-> 0]
    ELSE [s |-> AfterLoad(env.load), ok |-> env.load = "ok", tried |-> 1]

\* [x for x in chunks if x.strip()], stripped and prefixed with the tags
RECURSIVE PrefixedInputs(_, _)
PrefixedInputs(chunks, src_tag) ==
    IF chunks = <<>> THEN <<>>
    ELSE (IF Strip(Head(chunks)) # <<>>
          THEN <<[src |-> src_tag, tgt |-> TARGET_LANGUAGE_TAG, text |-> Strip(Head(chunks))]>>
          ELSE <<>>) \o PrefixedInputs(Tail(chunks), src_tag)

\* the results loop of _translate_chunks: decoded outputs given back to the
\* non-blank chunks in order, "" to the blank ones
RECURSIVE AlignResults(_, _, _)
AlignResults(chunks, env, pos) ==
    IF chunks = <<>> THEN <<>>
    ELSE IF Strip(Head(chunks)) # <<>>
         THEN <<OutAt(env, pos + 1)>> \o AlignResults(Tail(chunks), env, pos + 1)
    ELSE << <<>> >> \o AlignResults(Tail(chunks), env, pos)

\* _translate_chunks after its call of _load_model (lines 173-203); lm is
\* what _load_model returned, prefixed_inputs the inputs of the engine
TranslateLoaded(lm, chunks, prefixed_inputs, env, pos) ==
    IF ~lm.ok
    THEN [s |-> lm.s, results |-> chunks, raised |-> FALSE, tried |-> lm.tried,
          sent |-> <<>>, pos |-> pos]
    ELSE IF prefixed_inputs = <<>>
    THEN [s |-> lm.s, results |-> [i \in 1..Len(chunks) |-> <<>>], raised |-> FALSE,
          tried |-> lm.tried, sent |-> <<>>, pos |-> pos]
    ELSE IF \E k \in 1..Len(prefixed_inputs) : OutAt(env, pos + k) = EngineRaise
    THEN [s |-> lm.s, results |-> <<>>, raised |-> TRUE, tried |-> lm.tried,
          sent |-> <<prefixed_inputs>>, pos |-> pos + Len(prefixed_inputs)]
    ELSE [s |-> lm.s, results |-> AlignResults(chunks, env, pos), raised |-> FALSE,
          tried |-> lm.tried, sent |-> <<prefixed_inputs>>, pos |-> pos + Len(prefixed_inputs)]

\* TranslationService._translate_chunks -> [s, results, raised, tried, sent, pos]
translate_chunks(s, cfg, chunks, src_tag, env, pos) ==
    TranslateLoaded(load_model(s, cfg, env), chunks, PrefixedInputs(chunks, src_tag), env, pos)

\* translated_chunks.extend(...) (line 224); st is the state of the call,
\* [s, pos, out, raised, tried, sent], r what _translate_chunks returned
ExtendChunks(st, r) ==
    [s |-> r.s, pos |-> r.pos, out |-> st.out \o r.results, raised |-> r.raised,
     tried |-> st.tried + r.tried, sent |-> st.sent \o r.sent]

\* the loop over the batches of one segment (translate_text, lines 222-224)
RECURSIVE BatchLoop(_, _, _, _, _, _)
BatchLoop(st, batches, j, src_tag, cfg, env) ==
    IF j > Len(batches) \/ st.raised THEN st
    ELSE BatchLoop(ExtendChunks(st, translate_chunks(st.s, cfg, batches[j], src_tag, env, st.pos)),
                   batches, j + 1, src_tag, cfg, env)

\* translated_segments.append("\n".join(translated_chunks).strip()) (line 225);
\* b is the state after the batches of the segment
AppendSegment(st, b) == [b EXCEPT !.out = Append(st.out, Strip(JoinLF(b.out)))]

\* the loop over the segments (translate_text, lines 213-225)
RECURSIVE TranslateSegments(_, _, _, _, _, _)
TranslateSegments(st, segments, i, src_tag, cfg, env) ==
    IF i > Len(segments) \/ st.raised THEN st
    ELSE IF Strip(segments[i].text) = <<>> \/ ~segments[i].flag
    THEN TranslateSegments([st EXCEPT !.out = Append(@, segments[i].text)],
                           segments, i + 1, src_tag, cfg, env)
    ELSE TranslateSegments(
             AppendSegment(st, BatchLoop([st EXCEPT !.out = <<>>],
                                         batch_chunks(chunk_text(segments[i].text, ScaledMaxChars),
                                                      DEFAULT_BATCH_SIZE),
                                         1, src_tag, cfg, env)),
             segments, i + 1, src_tag, cfg, env)

\* a or b of Python, on strings
OrElse(a, b) == IF a # <<>> THEN a ELSE b

\* the return of translate_text without "or text"
TextResultNoFallback(t, st) ==
    [s |-> st.s, ret |-> Strip(JoinLF(st.out)), joined |-> Some(Strip(JoinLF(st.out))),
     raised |-> st.raised, tried |-> st.tried, sent |-> st.sent, pos |-> st.pos]

\* return "\n".join(translated_segments).strip() or text (line 226); joined
\* is a history field: the reassembled text before "or text", None when the
\* call returns before it reassembles anything
TextResult(t, st) ==
    [s |-> st.s, ret |-> OrElse(Strip(JoinLF(st.out)), t), joined |-> Some(Strip(JoinLF(st.out))),
     raised |-> st.raised, tried |-> st.tried, sent |-> st.sent, pos |-> st.pos]

CallState(s, pos, tried) ==
    [s |-> s, pos |-> pos, out |-> <<>>, raised |-> FALSE, tried |-> tried, sent |-> <<>>]

\* translate_text that loads the model before it looks at the text
EagerResult(lm, cfg, t, source_language, env, pos) ==
    IF Strip(t) = <<>> \/ ~HasDevanagari(t)
    THEN [s |-> lm.s, ret |-> t, joined |-> None, raised |-> FALSE, tried |-> lm.tried,
          sent |-> <<>>, pos |-> pos]
    ELSE TextResult(t, TranslateSegments(CallState(lm.s, pos, lm.tried), segment_text(t), 1,
                                         lang_tag(source_language), cfg, env))

translate_text_eager(s, cfg, t, source_language, env, pos) ==
    EagerResult(load_model(s, cfg, env), cfg, t, source_language, env, pos)

\* TranslationService.translate_text -> [s, ret, raised, tried, sent, pos]
translate_text(s, cfg, t, source_language, env, pos) ==
    IF Strip(t) = <<>> \/ ~HasDevanagari(t)
    THEN [s |-> s, ret |-> t, joined |-> None, raised |-> FALSE, tried |-> 0, sent |-> <<>>,
          pos |-> pos]
    ELSE TextResult(t, TranslateSegments(CallState(s, pos, 0), segment_text(t), 1,
                                         lang_tag(source_language), cfg, env))

\* translated.append(TranslatedBlock(...)) (lines 233-239); r is what
\* translate_text returned for the block
AppendBlock(st, block, r) ==
    [s |-> r.s, pos |-> r.pos,
     out |-> IF r.raised THEN st.out
             ELSE Append(st.out, [page_number |-> block.page_number,
                                  source_language |-> block.language,
                                  translated_text |-> OrElse(r.ret, block.text)]),
     raised |-> r.raised, tried |-> st.tried + r.tried, sent |-> st.sent \o r.sent]

\* TranslationService.translate_blocks; a block is [page_number, text, language],
\* a TranslatedBlock [page_number, source_language, translated_text]
RECURSIVE TranslateBlocksLoop(_, _, _, _, _)
TranslateBlocksLoop(st, bs, i, cfg, env) ==
    IF i > Len(bs) \/ st.raised THEN st
    ELSE TranslateBlocksLoop(
             AppendBlock(st, bs[i],
                         translate_text(st.s, cfg, bs[i].text, bs[i].language, env, st.pos)),
             bs, i + 1, cfg, env)

\* translate_blocks that appends a block only when its translation is not empty
DropEmpty(r) == [r EXCEPT !.out = SelectSeq(r.out, LAMBDA tb : tb.translated_text # <<>>)]

translate_blocks_drop_empty(s, cfg, bs, env) ==
    DropEmpty(TranslateBlocksLoop(CallState(s, 0, 0), bs, 1, cfg, env))

translate_blocks(s, cfg, bs, env) ==
    TranslateBlocksLoop(CallState(s, 0, 0), bs, 1, cfg, env)

\* the environments that differ for a call that consumes at most n engine
\* outputs: the load outcome counts only when a load can be entered, the
\* outputs only when the engine can be reached
Envs(s, cfg, n) ==
    IF ~cfg \/ (s.attempted /\ ~s.available)
    THEN {[load |-> "ok", outs |-> <<>>]}
    ELSE IF s.available
    THEN {[load |-> "ok", outs |-> o] : o \in [1..n -> EngineOutputs]}
    ELSE {[load |-> "ok", outs |-> o] : o \in [1..n -> EngineOutputs]}
         \cup {[load |-> l, outs |-> <<>>] : l \in LoadOutcomes \ {"ok"}}

\* an upper bound of the engine outputs a call on text t consumes: its
\* lines that hold a Devanagari letter
CountDevanagari(lines) == Cardinality({i \in 1..Len(lines) : HasDevanagari(lines[i])})

NeededOuts(t) == CountDevanagari(SplitLines(t))

(***************************************************************************)
(* SpecText: the pure text functions applied to every text of the bound.   *)
(***************************************************************************)
Texts == StrsUpTo(Alphabet, MaxTextLen)

NoRet == [op |-> "none"]

SvcIdle ==
    /\ blocks = <<>>
    /\ translation_model = TRUE
    /\ batch_size = SETTINGS_BATCH_SIZE
    /\ available = FALSE
    /\ attempted = FALSE
    /\ tokenizer = FALSE
    /\ model = FALSE
    /\ loads = 0
    /\ sent = <<>>
    /\ before = [s |-> Unloaded, loads |-> 0]

ConcIdle == threads = <<>>

ExtIdle ==
    /\ enable_ocr = TRUE
    /\ ocr_languages = <<>>
    /\ max_pages = 0
    /\ pdf = [opens |-> FALSE, pages |-> <<>>]
    /\ extraction = NoRet

PipeIdle ==
    /\ targets = 0
    /\ done = 0
    /\ phase = "idle"
    /\ original = None
    /\ english = None

\* no thread is inside _load_model, no document is being read or processed
DlIdle ==
    /\ target = None
    /\ stored = FALSE
    /\ completed = FALSE
    /\ calls = 0
    /\ dl = [pc |-> "idle", attempt |-> 0, result |-> "none"]

RestIdle == ConcIdle /\ ExtIdle /\ PipeIdle /\ DlIdle

InitText ==
    /\ text \in Texts
    /\ max_chars \in 1..MaxMaxChars
    /\ language = None
    /\ ret = NoRet
    /\ SvcIdle
    /\ RestIdle

SegmentText ==
    /\ ret = NoRet
    /\ ret' = [op |-> "segment_text", v |-> segment_text(text)]
    /\ UNCHANGED <<text, max_chars, language, blocks>>
    /\ UNCHANGED <<svcVars, restOfSvc>>

ChunkText ==
    /\ ret = NoRet
    /\ ret' = [op |-> "chunk_text", v |-> chunk_text(text, max_chars)]
    /\ UNCHANGED <<text, max_chars, language, blocks>>
    /\ UNCHANGED <<svcVars, restOfSvc>>

NextText == SegmentText \/ ChunkText

SpecText == InitText /\ [][NextText]_vars

(***************************************************************************)
(* SpecTag: _lang_tag applied to an absent code and to every code of the   *)
(* bound.                                                                  *)
(***************************************************************************)
Codes == StrsUpTo(CodeAlphabet, MaxCodeLen)

InitTag ==
    /\ text = <<>>
    /\ max_chars = 0
    /\ language \in {None} \cup {Some(c) : c \in Codes}
    /\ ret = NoRet
    /\ SvcIdle
    /\ RestIdle

LangTag ==
    /\ ret = NoRet
    /\ ret' = [op |-> "lang_tag", v |-> lang_tag(language)]
    /\ UNCHANGED <<text, max_chars, language, blocks>>
    /\ UNCHANGED <<svcVars, restOfSvc>>

NextTag == LangTag

SpecTag == InitTag /\ [][NextTag]_vars

(***************************************************************************)
(* The fields of the service as a record, and their update.                *)
(***************************************************************************)
Svc == [available |-> available, attempted |-> attempted,
        tokenizer |-> tokenizer, model |-> model]

SetSvc(s) ==
    /\ available' = s.available
    /\ attempted' = s.attempted
    /\ tokenizer' = s.tokenizer
    /\ model' = s.model

Min(a, b) == IF a < b THEN a ELSE b

\* the effect of a call on the service and on the history variables; r is
\* what the call's operator gives
ServiceAfter(r) ==
    /\ SetSvc(r.s)
    /\ loads' = Min(loads + r.tried, MaxLoads)
    /\ sent' = r.sent
    /\ before' = [s |-> Svc, loads |-> loads]

TextCallReturns(r) ==
    /\ ret' = [op |-> "translate_text", raised |-> r.raised,
               v |-> IF r.raised THEN <<>> ELSE r.ret,
               joined |-> IF r.raised THEN None ELSE r.joined]
    /\ ServiceAfter(r)

BlocksCallReturns(r) ==
    /\ ret' = [op |-> "translate_blocks", raised |-> r.raised,
               v |-> IF r.raised THEN <<>> ELSE r.out]
    /\ ServiceAfter(r)

\* the states a service is in: never loaded, loaded, and load failed at the
\* tokenizer or at the model
Loaded == [available |-> TRUE, attempted |-> TRUE, tokenizer |-> TRUE, model |-> TRUE]
FailedAtTokenizer == [available |-> FALSE, attempted |-> TRUE, tokenizer |-> FALSE, model |-> FALSE]
FailedAtModel == [available |-> FALSE, attempted |-> TRUE, tokenizer |-> TRUE, model |-> FALSE]

Langs == {None, Some(<<"e", "n">>)}

(***************************************************************************)
(* SpecXlate: one translate_text call, on every text of the bound, by a    *)
(* service in each state a service can be in (see ServiceStateOk).         *)
(***************************************************************************)
SvcTexts == StrsUpTo(Alphabet, MaxSvcTextLen)

InitXlate ==
    /\ text \in SvcTexts
    /\ language \in Langs
    /\ max_chars = 0
    /\ blocks = <<>>
    /\ ret = NoRet
    /\ sent = <<>>
    /\ batch_size \in 1..MaxBatchSize
    /\ RestIdle
    /\ \E cfg \in BOOLEAN, s \in {Unloaded, Loaded, FailedAtTokenizer, FailedAtModel} :
          /\ (~cfg => s = Unloaded)
          /\ translation_model = cfg
          /\ available = s.available
          /\ attempted = s.attempted
          /\ tokenizer = s.tokenizer
          /\ model = s.model
          /\ loads = (IF s.attempted THEN 1 ELSE 0)
          /\ before = [s |-> s, loads |-> IF s.attempted THEN 1 ELSE 0]

XlateText ==
    /\ ret = NoRet
    /\ \E env \in Envs(Svc, translation_model, NeededOuts(text)) :
          TextCallReturns(translate_text(Svc, translation_model, text, language, env, 0))
    /\ UNCHANGED <<text, max_chars, language, blocks, translation_model, batch_size, restOfSvc>>

NextXlate == XlateText

SpecXlate == InitXlate /\ [][NextXlate]_vars

(***************************************************************************)
(* Spec: one TranslationService over its life, called one call after the   *)
(* other (as ProcessingPipeline does): translate_blocks on the blocks of a *)
(* document, translate_text on the text of any of them.                    *)
(***************************************************************************)
BlockTexts == {<<>>, <<"SP">>, <<"A">>, <<"D">>}

\* the blocks of a document carry the language the extractor detected in
\* their text: none in a blank text, else the detector's guess
PageBlocks == {[page_number |-> p, text |-> t,
                language |-> detect_language(t, IF HasDevanagari(t) THEN Some(<<"h", "i">>)
                                                ELSE Some(<<"e", "n">>))] :
               p \in {1, 2}, t \in BlockTexts}

BlockSeqs == UNION {[1..k -> PageBlocks] : k \in 0..MaxBlocks}

RECURSIVE NeededOutsOf(_)
NeededOutsOf(bs) == IF bs = <<>> THEN 0 ELSE NeededOuts(Head(bs).text) + NeededOutsOf(Tail(bs))

Init ==
    /\ text = <<>>
    /\ language = None
    /\ max_chars = 0
    /\ blocks \in BlockSeqs
    /\ ret = NoRet
    /\ translation_model \in BOOLEAN
    /\ batch_size = SETTINGS_BATCH_SIZE
    /\ available = FALSE
    /\ attempted = FALSE
    /\ tokenizer = FALSE
    /\ model = FALSE
    /\ loads = 0
    /\ sent = <<>>
    /\ before = [s |-> Unloaded, loads |-> 0]
    /\ RestIdle

CallTranslateText ==
    /\ \E i \in 1..Len(blocks) :
        \E env \in Envs(Svc, translation_model, NeededOuts(blocks[i].text)) :
          /\ text' = blocks[i].text
          /\ language' = blocks[i].language
          /\ TextCallReturns(translate_text(Svc, translation_model, blocks[i].text,
                                            blocks[i].language, env, 0))
    /\ UNCHANGED <<max_chars, blocks, translation_model, batch_size, restOfSvc>>

CallTranslateBlocks ==
    /\ \E env \in Envs(Svc, translation_model, NeededOutsOf(blocks)) :
          BlocksCallReturns(translate_blocks(Svc, translation_model, blocks, env))
    /\ UNCHANGED <<text, language, max_chars, blocks, translation_model, batch_size, restOfSvc>>

Next == CallTranslateText \/ CallTranslateBlocks

Spec == Init /\ [][Next]_vars

\* every state of the service Spec reaches is one SpecXlate starts from
ServiceStateOk ==
    /\ Svc \in {Unloaded, Loaded, FailedAtTokenizer, FailedAtModel}
    /\ (~translation_model => Svc = Unloaded)
    /\ loads = (IF attempted THEN 1 ELSE 0)

(***************************************************************************)
(* SpecConc: NThreads threads of one process make their first translation  *)
(* request on one never-loaded TranslationService and are inside           *)
(* _load_model together.  _load_model takes no lock, so the threads        *)
(* interleave between its statements.  A thread is                         *)
(* [pc, loaded, result]: the statement it is at, whether its own           *)
(* AutoModelForSeq2SeqLM.from_pretrained returned a model, and what        *)
(* _load_model returned to it.                                             *)
(***************************************************************************)
Threads == 1..NThreads

InitConc ==
    /\ text = <<>>
    /\ max_chars = 0
    /\ language = None
    /\ blocks = <<>>
    /\ ret = NoRet
    /\ translation_model \in BOOLEAN
    /\ batch_size = SETTINGS_BATCH_SIZE
    /\ available = FALSE
    /\ attempted = FALSE
    /\ tokenizer = FALSE
    /\ model = FALSE
    /\ loads = 0
    /\ sent = <<>>
    /\ before = [s |-> Unloaded, loads |-> 0]
    /\ threads = [t \in Threads |-> [pc |-> "check_available", loaded |-> FALSE, result |-> "none"]]
    /\ ExtIdle
    /\ PipeIdle
    /\ DlIdle

At(t, where) == threads[t].pc = where

Goto(t, where) == threads' = [threads EXCEPT ![t].pc = where]

Return(t, value) == threads' = [threads EXCEPT ![t].pc = "done", ![t].result = value]

concFrame == <<callVars, translation_model, batch_size, sent, before, extVars, pipeVars, dlVars>>

\* lines 90-91: if self._available: return True
CheckAvailable(t) ==
    /\ At(t, "check_available")
    /\ IF available THEN Return(t, "True") ELSE Goto(t, "check_attempted")
    /\ UNCHANGED <<concFrame, available, attempted, tokenizer, model, loads>>

\* lines 92-93: if self._attempted: return False
CheckAttempted(t) ==
    /\ At(t, "check_attempted")
    /\ IF attempted THEN Return(t, "False") ELSE Goto(t, "check_model_name")
    /\ UNCHANGED <<concFrame, available, attempted, tokenizer, model, loads>>

\* lines 94-97: if not model_name: return False
CheckModelName(t) ==
    /\ At(t, "check_model_name")
    /\ IF ~translation_model THEN Return(t, "False") ELSE Goto(t, "load_tokenizer")
    /\ UNCHANGED <<concFrame, available, attempted, tokenizer, model, loads>>

\* line 101: self._tokenizer = AutoTokenizer.from_pretrained(...), or it raises
LoadTokenizer(t) ==
    /\ At(t, "load_tokenizer")
    /\ loads' = Min(loads + 1, MaxLoads)
    /\ \/ tokenizer' = TRUE /\ Goto(t, "load_model")
       \/ tokenizer' = tokenizer /\ Goto(t, "except")
    /\ UNCHANGED <<concFrame, available, attempted, model>>

\* lines 102-104: self._model = AutoModelForSeq2SeqLM.from_pretrained(...).to(...),
\* or it raises
LoadModel(t) ==
    /\ At(t, "load_model")
    /\ \/ /\ model' = TRUE
          /\ threads' = [threads EXCEPT ![t].pc = "set_available", ![t].loaded = TRUE]
       \/ model' = model /\ Goto(t, "except")
    /\ UNCHANGED <<concFrame, available, attempted, tokenizer, loads>>

\* line 105: self._available = True
SetAvailable(t) ==
    /\ At(t, "set_available")
    /\ available' = TRUE
    /\ Goto(t, "finally")
    /\ UNCHANGED <<concFrame, attempted, tokenizer, model, loads>>

\* lines 106-108: except Exception: self._available = False
ExceptHandler(t) ==
    /\ At(t, "except")
    /\ available' = FALSE
    /\ Goto(t, "finally")
    /\ UNCHANGED <<concFrame, attempted, tokenizer, model, loads>>

\* lines 109-110: finally: self._attempted = True
Finally(t) ==
    /\ At(t, "finally")
    /\ attempted' = TRUE
    /\ Goto(t, "return")
    /\ UNCHANGED <<concFrame, available, tokenizer, model, loads>>

\* line 111: return self._available
ReturnAvailable(t) ==
    /\ At(t, "return")
    /\ Return(t, IF available THEN "True" ELSE "False")
    /\ UNCHANGED <<concFrame, available, attempted, tokenizer, model, loads>>

NextConc ==
    \E t \in Threads :
        \/ CheckAvailable(t)
        \/ CheckAttempted(t)
        \/ CheckModelName(t)
        \/ LoadTokenizer(t)
        \/ LoadModel(t)
        \/ SetAvailable(t)
        \/ ExceptHandler(t)
        \/ Finally(t)
        \/ ReturnAvailable(t)

SpecConc == InitConc /\ [][NextConc]_vars

(***************************************************************************)
(* TextExtractor.  What the PDF and the OCR engine decide is given in the  *)
(* document: pdf is [opens, pages], opens whether the document can be      *)
(* opened (pdfium.PdfDocument / pdfplumber.open), and a page is            *)
(*   get     document.get_page returns the page;                           *)
(*   render  page.render and bitmap.to_pil return an image;                *)
(*   ocr     how image_to_string ends with the configured languages;       *)
(*   retry   how image_to_string ends with lang="eng";                     *)
(*   native  how page.extract_text ends.                                   *)
(* An outcome is [kind, text, lang]: "text" with the text returned,        *)
(* "failed_loading" a TesseractError whose message has "Failed loading     *)
(* language" for the pack lang, "tesseract_error" any other                *)
(* TesseractError, "error" an exception of another class.  OCR output may  *)
(* hold the form feed "FF" (\x0c) that tesseract ends a page with.         *)
(* ocr_languages is the sequence of the codes joined by "+"; max_pages 0   *)
(* stands for None (both are false in "if self.settings.max_pages").       *)
(***************************************************************************)
Outcome(kind, t, lang) == [kind |-> kind, text |-> t, lang |-> lang]

Unused == Outcome("unused", <<>>, "")

TextOutcome(t) == Outcome("text", t, "")

FailedLoading(lang) == Outcome("failed_loading", <<>>, lang)

TesseractError == Outcome("tesseract_error", <<>>, "")

OtherError == Outcome("error", <<>>, "")

Page(get, render, ocr, retry, native) ==
    [get |-> get, render |-> render, ocr |-> ocr, retry |-> retry, native |-> native]

\* ProcessingSettings.ocr_languages default and the fallback of __init__
DEFAULT_OCR_LANGUAGES == <<"eng", "hin">>

\* self.ocr_languages = settings.ocr_languages or "eng+hin"
OcrLanguagesOf(setting) == IF setting = <<>> THEN DEFAULT_OCR_LANGUAGES ELSE setting

\* "hin" in self.ocr_languages: a substring test, which on "+"-joined
\* tesseract codes is the membership of the code
HasCode(ocr_langs, code) == \E i \in DOMAIN ocr_langs : ocr_langs[i] = code

\* text.replace("\x0c", "")
RemoveFF(t) == SelectSeq(t, LAMBDA c : c # "FF")

\* return text.replace("\x0c", "").strip()
OcrText(raw) == Strip(RemoveFF(raw))

NoText == [raised |-> FALSE, text |-> <<>>]

Raised == [raised |-> TRUE, text |-> <<>>]

\* the except branch of the English-only call (lines 70-79)
RetryResult(retry) ==
    IF retry.kind = "text" THEN [raised |-> FALSE, text |-> OcrText(retry.text)]
    ELSE IF retry.kind = "error" THEN Raised
    ELSE NoText

\* TextExtractor._run_ocr -> [raised, text]
run_ocr(ocr_langs, page) ==
    IF page.ocr.kind = "text" THEN [raised |-> FALSE, text |-> OcrText(page.ocr.text)]
    ELSE IF page.ocr.kind = "error" THEN Raised
    ELSE IF page.ocr.kind = "failed_loading" /\ HasCode(ocr_langs, "hin")
    THEN RetryResult(page.retry)
    ELSE NoText

\* what detect_langs answers on a snippet
LangGuess(t) == IF HasDevanagari(t) THEN Some(<<"h", "i">>) ELSE Some(<<"e", "n">>)

\* PageBlock(page_number, text, self._detect_language(text) if text else None)
PageBlock(page_number, t) ==
    [page_number |-> page_number, text |-> t,
     language |-> IF t # <<>> THEN detect_language(t, LangGuess(t)) ELSE None]

\* an extraction under way: [raised, blocks]
NoBlocks == [raised |-> FALSE, blocks |-> <<>>]

\* blocks.append(PageBlock(...)) with what _run_ocr / extract_text gave
AppendPage(st, page_number, r) ==
    IF r.raised THEN [st EXCEPT !.raised = TRUE]
    ELSE [st EXCEPT !.blocks = Append(@, PageBlock(page_number, r.text))]

\* min(total_pages, max_pages) under "if self.settings.max_pages"
TotalPages(n, cap) == IF cap # 0 THEN Min(n, cap) ELSE n

\* the loop of _extract_with_ocr with page_number = index
RECURSIVE OcrLoopZeroBased(_, _, _, _, _)
OcrLoopZeroBased(st, pages, index, total_pages, ocr_langs) ==
    IF index >= total_pages \/ st.raised THEN st
    ELSE IF ~pages[index + 1].get \/ ~pages[index + 1].render
    THEN OcrLoopZeroBased(st, pages, index + 1, total_pages, ocr_langs)
    ELSE OcrLoopZeroBased(AppendPage(st, index, run_ocr(ocr_langs, pages[index + 1])),
                          pages, index + 1, total_pages, ocr_langs)

\* the loop of _extract_with_ocr over range(total_pages) (lines 105-126)
RECURSIVE OcrLoop(_, _, _, _, _)
OcrLoop(st, pages, index, total_pages, ocr_langs) ==
    IF index >= total_pages \/ st.raised THEN st
    ELSE IF ~pages[index + 1].get \/ ~pages[index + 1].render
    THEN OcrLoop(st, pages, index + 1, total_pages, ocr_langs)
    ELSE OcrLoop(AppendPage(st, index + 1, run_ocr(ocr_langs, pages[index + 1])),
                 pages, index + 1, total_pages, ocr_langs)

\* TextExtractor._extract_with_ocr -> [raised, blocks]
extract_with_ocr(ocr_langs, cap, doc) ==
    IF ~doc.opens THEN NoBlocks
    ELSE IF Len(doc.pages) = 0 THEN NoBlocks
    ELSE OcrLoop(NoBlocks, doc.pages, 0, TotalPages(Len(doc.pages), cap), ocr_langs)

\* text = page.extract_text() or ""
NativeResult(native) ==
    IF native.kind = "text" THEN [raised |-> FALSE, text |-> native.text] ELSE Raised

\* the loop of _extract_with_pdfplumber over enumerate(pdf.pages, start=1)
RECURSIVE NativeLoop(_, _, _, _)
NativeLoop(st, pages, page_idx, cap) ==
    IF page_idx > Len(pages) \/ st.raised THEN st
    ELSE IF cap # 0 /\ page_idx >= cap
    THEN AppendPage(st, page_idx, NativeResult(pages[page_idx].native))
    ELSE NativeLoop(AppendPage(st, page_idx, NativeResult(pages[page_idx].native)),
                    pages, page_idx + 1, cap)

\* TextExtractor._extract_with_pdfplumber -> [raised, blocks]; pdfplumber.open
\* is not inside a try
extract_with_pdfplumber(cap, doc) ==
    IF ~doc.opens THEN [raised |-> TRUE, blocks |-> <<>>]
    ELSE NativeLoop(NoBlocks, doc.pages, 1, cap)

\* TextExtractor.extract
extract(ocr_enabled, setting, cap, doc) ==
    IF ocr_enabled THEN extract_with_ocr(OcrLanguagesOf(setting), cap, doc)
    ELSE extract_with_pdfplumber(cap, doc)

(***************************************************************************)
(* The documents of the bound.                                             *)
(***************************************************************************)
OcrProfiles == {<<>>, <<"eng">>, <<"eng", "hin">>, <<"eng", "mar">>}

\* what image_to_string returns before _run_ocr cleans it
OcrRawTexts == {<<>>, <<"A">>, <<"SP", "D", "FF">>, <<"A", "LF", "SP", "D">>}

RetryOutcomes == {TextOutcome(<<"A", "FF">>), TesseractError, OtherError}

\* what page.extract_text returns
NativeTexts == {<<>>, <<"A">>, <<"SP">>, <<"D", "SP">>}

\* the packs of a profile that can be the missing one: a secondary script's,
\* or the only pack of a one-script profile
SecondaryCodes(ocr_langs) == {ocr_langs[i] : i \in DOMAIN ocr_langs} \ {"eng"}

MissingPacks(ocr_langs) ==
    IF SecondaryCodes(ocr_langs) # {} THEN SecondaryCodes(ocr_langs) ELSE {"eng"}

\* the pages of a document read by OCR; what the code cannot reach on a page
\* (the native text; the image of a page that cannot be got) is left Unused
OcrPages(ocr_langs) ==
    {Page(FALSE, FALSE, Unused, Unused, Unused), Page(TRUE, FALSE, Unused, Unused, Unused)}
    \cup {Page(TRUE, TRUE, o, Unused, Unused) :
            o \in {TextOutcome(t) : t \in OcrRawTexts} \cup {TesseractError, OtherError}}
    \cup {Page(TRUE, TRUE, FailedLoading(l), r, Unused) :
            l \in MissingPacks(ocr_langs), r \in RetryOutcomes}

NativePages ==
    {Page(TRUE, TRUE, Unused, Unused, o) : o \in {TextOutcome(t) : t \in NativeTexts} \cup {OtherError}}

Pages(ocr_enabled, setting) ==
    IF ocr_enabled THEN OcrPages(OcrLanguagesOf(setting)) ELSE NativePages

CannotOpen == [opens |-> FALSE, pages |-> <<>>]

\* the documents of at most MaxPages pages drawn from a set of pages
DocsOf(pages) ==
    {CannotOpen}
    \cup {[opens |-> TRUE, pages |-> ps] : ps \in UNION {[1..k -> pages] : k \in 0..MaxPages}}

Docs(ocr_enabled, setting) == DocsOf(Pages(ocr_enabled, setting))

\* the pages of the documents given to the process command: one page for
\* each way a page can come out of extract (skipped, read with each text,
\* read by the English-only retry, left empty by a TesseractError, ending
\* the extraction with another exception)
PipePages(ocr_enabled) ==
    IF ocr_enabled
    THEN {p \in OcrPages(DEFAULT_OCR_LANGUAGES) :
            p.render = p.get /\ p.retry.kind \in {"unused", "text"}}
    ELSE NativePages

PipeDocs(ocr_enabled) == DocsOf(PipePages(ocr_enabled))

(***************************************************************************)
(* SpecOcr: one extract call by a TextExtractor of each configuration, on  *)
(* every document of the bound.                                            *)
(***************************************************************************)
InitOcr ==
    /\ text = <<>>
    /\ max_chars = 0
    /\ language = None
    /\ ret = NoRet
    /\ SvcIdle
    /\ ConcIdle
    /\ DlIdle
    /\ PipeIdle
    /\ enable_ocr \in BOOLEAN
    /\ ocr_languages \in (IF enable_ocr THEN OcrProfiles ELSE {DEFAULT_OCR_LANGUAGES})
    /\ max_pages \in 0..MaxPages
    /\ pdf \in Docs(enable_ocr, ocr_languages)
    /\ extraction = NoRet

ExtractionOf(r) == [op |-> "extract", raised |-> r.raised, blocks |-> r.blocks]

CallExtract ==
    /\ extraction = NoRet
    /\ extraction' = ExtractionOf(extract(enable_ocr, ocr_languages, max_pages, pdf))
    /\ UNCHANGED <<callVars, svcVars, concVars, dlVars, pipeVars>>
    /\ UNCHANGED <<enable_ocr, ocr_languages, max_pages, pdf>>

NextOcr == CallExtract

SpecOcr == InitOcr /\ [][NextOcr]_vars

(***************************************************************************)
(* SpecPipe: the process command.  _run awaits process_pdf for each of     *)
(* the targets in turn; process_pdf extracts, translates, builds the two   *)
(* payloads and writes them with asyncio.gather, in either order.          *)
(* targets is the number of paths, done how many process_pdf calls         *)
(* returned; pdf is the document at the current path, and original and     *)
(* english are the files <stem>.json of the current path in the two        *)
(* output directories: None, or Some(pages).                               *)
(***************************************************************************)
InitPipe ==
    /\ text = <<>>
    /\ max_chars = 0
    /\ language = None
    /\ blocks = <<>>
    /\ ret = NoRet
    /\ translation_model \in BOOLEAN
    /\ batch_size = SETTINGS_BATCH_SIZE
    /\ available = FALSE
    /\ attempted = FALSE
    /\ tokenizer = FALSE
    /\ model = FALSE
    /\ loads = 0
    /\ sent = <<>>
    /\ before = [s |-> Unloaded, loads |-> 0]
    /\ ConcIdle
    /\ DlIdle
    /\ enable_ocr \in BOOLEAN
    /\ ocr_languages = DEFAULT_OCR_LANGUAGES
    /\ max_pages = 0
    /\ pdf = CannotOpen
    /\ extraction = NoRet
    /\ targets \in 1..MaxTargets
    /\ done = 0
    /\ phase = "next"
    /\ original = None
    /\ english = None

pipeSettings == <<enable_ocr, ocr_languages, max_pages, targets>>

\* for path in targets: await pipeline.process_pdf(path)
ProcessPdf ==
    /\ phase = "next"
    /\ done < targets
    /\ pdf' \in PipeDocs(enable_ocr)
    /\ extraction' = NoRet
    /\ ret' = NoRet
    /\ blocks' = <<>>
    /\ original' = None
    /\ english' = None
    /\ phase' = "extract"
    /\ UNCHANGED <<text, max_chars, language, svcVars, concVars, dlVars, pipeSettings, done>>

\* extraction = await self._extract(pdf_path)
Extract ==
    /\ phase = "extract"
    /\ extraction' = ExtractionOf(extract(enable_ocr, ocr_languages, max_pages, pdf))
    /\ phase' = IF extraction'.raised THEN "raised" ELSE "translate"
    /\ UNCHANGED <<callVars, svcVars, concVars, dlVars, pipeSettings, pdf, done, original, english>>

\* translated_map = await self._translate(extraction)
Translate ==
    /\ phase = "translate"
    /\ blocks' = extraction.blocks
    /\ \E env \in Envs(Svc, translation_model, NeededOutsOf(extraction.blocks)) :
          BlocksCallReturns(translate_blocks(Svc, translation_model, extraction.blocks, env))
    /\ phase' = IF ret'.raised THEN "raised" ELSE "write"
    /\ UNCHANGED <<text, max_chars, language, translation_model, batch_size, concVars, dlVars>>
    /\ UNCHANGED <<pipeSettings, pdf, extraction, done, original, english>>

\* {block.page_number: block for block in translated_blocks}
TranslatedMap(tbs) ==
    [p \in {tbs[i].page_number : i \in DOMAIN tbs} |->
        tbs[CHOOSE i \in DOMAIN tbs :
                /\ tbs[i].page_number = p
                /\ \A j \in DOMAIN tbs : tbs[j].page_number = p => j <= i]]

\* original_payload["pages"]
OriginalPages(bs) ==
    [i \in DOMAIN bs |->
        [page |-> bs[i].page_number, language |-> bs[i].language, text |-> bs[i].text]]

\* translated_pages that leaves out the pages whose translation is empty
TranslatedPagesNonEmpty(bs, translated_map) ==
    SelectSeq([i \in DOMAIN bs |->
                  [page |-> bs[i].page_number,
                   source_language |-> translated_map[bs[i].page_number].source_language,
                   text |-> translated_map[bs[i].page_number].translated_text]],
              LAMBDA entry : entry.text # <<>>)

\* translated_pages
TranslatedPages(bs, translated_map) ==
    [i \in DOMAIN bs |->
        IF bs[i].page_number \in DOMAIN translated_map
        THEN [page |-> bs[i].page_number,
              source_language |-> translated_map[bs[i].page_number].source_language,
              text |-> translated_map[bs[i].page_number].translated_text]
        ELSE [page |-> bs[i].page_number, source_language |-> bs[i].language,
              text |-> bs[i].text]]

\* self._write_json(original_path, original_payload)
WriteOriginalJson ==
    /\ phase = "write"
    /\ original = None
    /\ original' = Some(OriginalPages(extraction.blocks))
    /\ UNCHANGED <<callVars, svcVars, concVars, dlVars, pipeSettings, pdf, extraction, done, phase,
                   english>>

\* self._write_json(translated_path, translated_payload)
WriteTranslatedJson ==
    /\ phase = "write"
    /\ english = None
    /\ english' = Some(TranslatedPages(extraction.blocks, TranslatedMap(ret.v)))
    /\ UNCHANGED <<callVars, svcVars, concVars, dlVars, pipeSettings, pdf, extraction, done, phase,
                   original>>

\* process_pdf that returns without awaiting the write of the english file
ReturnPathsEarly ==
    /\ phase = "write"
    /\ original # None
    /\ done' = done + 1
    /\ phase' = "next"
    /\ UNCHANGED <<callVars, svcVars, concVars, dlVars, pipeSettings, pdf, extraction, original,
                   english>>

\* return {"original": original_path, "english": translated_path}
ReturnPaths ==
    /\ phase = "write"
    /\ original # None
    /\ english # None
    /\ done' = done + 1
    /\ phase' = "next"
    /\ UNCHANGED <<callVars, svcVars, concVars, dlVars, pipeSettings, pdf, extraction, original,
                   english>>

NextPipe ==
    \/ ProcessPdf
    \/ Extract
    \/ Translate
    \/ WriteOriginalJson
    \/ WriteTranslatedJson
    \/ ReturnPaths

SpecPipe == InitPipe /\ [][NextPipe]_vars

(***************************************************************************)
(* SpecDl: DebateDownloader.download_record for one record, called by the  *)
(* scrape command run after run.  target is the file at target_path: None  *)
(* when there is no file, else Some(k), k the chunks of the PDF written to *)
(* it (the PDF has FileChunks chunks); stored is whether the metadata store holds a                *)
(* downloaded_path for the record; dl is the call under way,               *)
(* [pc, attempt, result]; completed is a history variable: some            *)
(* _download_once of the record wrote the whole file.                      *)
(***************************************************************************)
InitDl ==
    /\ text = <<>>
    /\ max_chars = 0
    /\ language = None
    /\ ret = NoRet
    /\ SvcIdle
    /\ ConcIdle
    /\ ExtIdle
    /\ PipeIdle
    /\ target = None
    /\ stored = FALSE
    /\ completed = FALSE
    /\ calls = 0
    /\ dl = [pc |-> "idle", attempt |-> 0, result |-> "none"]

dlFrame == <<callVars, svcVars, concVars, extVars, pipeVars>>

\* how record.pdf_url or resolve_pdf_url(record) ends
ResolveOutcomes == {"url", "none", "error"}

\* how one _download_once attempt ends, [kind, written]: "ok" with the whole
\* file written; "status_error" an httpx.HTTPError before the file is opened
\* (connection, raise_for_status); "stream_error" an httpx.HTTPError in
\* aiter_bytes, after the file was opened and written chunks were written;
\* "open_error" and "write_error" an exception of another class before and
\* after the file was opened
AttemptOutcomes ==
    {[kind |-> "ok", written |-> FileChunks]}
    \cup {[kind |-> k, written |-> 0] : k \in {"status_error", "open_error"}}
    \cup {[kind |-> k, written |-> n] :
            k \in {"stream_error", "write_error"}, n \in 0..(FileChunks - 1)}

\* scrape._run puts the record in to_download unless the store has its
\* downloaded_path; download_record then resolves the url and returns the
\* target path at once when the file exists (lines 87-101)
DownloadRecord ==
    /\ dl.pc = "idle"
    /\ ~stored
    /\ calls < MaxCalls
    /\ calls' = calls + 1
    /\ \E resolved \in ResolveOutcomes :
          dl' = IF resolved # "url" THEN [pc |-> "idle", attempt |-> 0, result |-> "raised"]
                ELSE IF target # None
                THEN [pc |-> "returned", attempt |-> 0, result |-> "skipped"]
                ELSE [pc |-> "attempt", attempt |-> 1, result |-> "none"]
    /\ UNCHANGED <<dlFrame, target, stored, completed>>

\* the file after an attempt that ended with outcome
TargetAfter(file, outcome) ==
    IF outcome.kind \in {"ok", "stream_error", "write_error"} THEN Some(outcome.written)
    ELSE file

\* tenacity: retry on httpx.HTTPError, stop_after_attempt(4), reraise
Retried(outcome, attempt) ==
    outcome.kind \in {"status_error", "stream_error"} /\ attempt < DOWNLOAD_ATTEMPTS

\* one attempt of _download_once (lines 78-83) under the retry decorator
DownloadOnce ==
    /\ dl.pc = "attempt"
    /\ \E outcome \in AttemptOutcomes :
          /\ target' = TargetAfter(target, outcome)
          /\ completed' = (completed \/ outcome.kind = "ok")
          /\ dl' = IF outcome.kind = "ok"
                   THEN [pc |-> "returned", attempt |-> dl.attempt, result |-> "downloaded"]
                   ELSE IF Retried(outcome, dl.attempt)
                   THEN [dl EXCEPT !.attempt = @ + 1]
                   ELSE [pc |-> "idle", attempt |-> dl.attempt, result |-> "raised"]
    /\ UNCHANGED <<dlFrame, stored, calls>>

\* store.upsert(record, downloaded_path=str(path)) (cli.py 98-100)
StoreUpsert ==
    /\ dl.pc = "returned"
    /\ stored' = TRUE
    /\ dl' = [dl EXCEPT !.pc = "idle"]
    /\ UNCHANGED <<dlFrame, target, completed, calls>>

NextDl == DownloadRecord \/ DownloadOnce \/ StoreUpsert

SpecDl == InitDl /\ [][NextDl]_vars

(***************************************************************************)
(* Properties.                                                             *)
(***************************************************************************)

\* C1: whenever translate_blocks returns, in whatever state the engine is
\* (never loaded, loaded, load failed), the list it returns is as long as
\* the list of blocks it was given, and its i-th TranslatedBlock carries the
\* page_number of the i-th block.
C1_BlocksAligned ==
    (ret.op = "translate_blocks" /\ ~ret.raised) =>
        /\ Len(ret.v) = Len(blocks)
        /\ \A i \in 1..Len(blocks) : ret.v[i].page_number = blocks[i].page_number

\* C1 witness: a loaded engine returned two blocks, one of them with an
\* empty text, whose page numbers are not their positions.
C1_Witness ==
    /\ ret.op = "translate_blocks" /\ ~ret.raised
    /\ before.s = Loaded
    /\ Len(blocks) = 2
    /\ blocks[1].page_number = 2 /\ blocks[2].page_number = 1
    /\ blocks[1].text = <<>> /\ HasDevanagari(blocks[2].text)
    /\ sent # <<>>

\* C2 (as claimed): with the engine unavailable (load failed, or no model
\* configured), translate_text returns its text argument character for
\* character.
C2_UnavailableIsIdentity ==
    (ret.op = "translate_text" /\ ~available) => ret.v = text

\* C3 (as claimed): the texts of the segments of _segment_text(text),
\* joined with a newline, are the text.
SegmentTexts(segments) == [i \in 1..Len(segments) |-> segments[i].text]

C3_SegmentRoundTrip ==
    ret.op = "segment_text" => JoinLF(SegmentTexts(ret.v)) = text

\* C4: a chunk of _chunk_text made of more than one line is at most max_chars
\* long, and a chunk longer than max_chars is one line.
NumLines(chunk) == 1 + Cardinality({k \in 1..Len(chunk) : chunk[k] = "LF"})

C4_ChunkBudget ==
    ret.op = "chunk_text" =>
        \A i \in 1..Len(ret.v) :
            /\ NumLines(ret.v[i]) > 1 => Len(ret.v[i]) <= max_chars
            /\ Len(ret.v[i]) > max_chars => NumLines(ret.v[i]) = 1

\* C4 witness: a chunk of several lines that fills the budget, after a chunk
\* of one line that exceeds it.
C4_Witness ==
    /\ ret.op = "chunk_text"
    /\ Len(ret.v) >= 2
    /\ \E i \in 1..Len(ret.v) : NumLines(ret.v[i]) > 1 /\ Len(ret.v[i]) = max_chars
    /\ \E j \in 1..Len(ret.v) : Len(ret.v[j]) > max_chars

\* C5: _lang_tag gives the same tag for a code in any letter case and with
\* or without a hyphenated region suffix, and gives hin_Deva for an absent
\* code and for a code none of whose lookups (the lower-cased part before
\* the hyphen, its first three and its first two letters) is in the table.
RegionSuffix == <<"-", "I", "N">>

NoTableEntry(code) ==
    LET base == BeforeHyphen(Lower(code))
    IN \A n \in {Len(base), 3, 2} :
          Len(base) >= n => ToStr(Prefix(base, n)) \notin DOMAIN INDIC_LANGUAGE_TAGS

C5_TagResolution ==
    ret.op = "lang_tag" =>
        /\ language # None =>
              /\ ret.v = lang_tag(Some(Upper(language[1])))
              /\ ret.v = lang_tag(Some(Lower(language[1])))
              /\ ret.v = lang_tag(Some(language[1] \o RegionSuffix))
              /\ ret.v = lang_tag(Some(BeforeHyphen(language[1])))
        /\ (language = None \/ NoTableEntry(language[1])) => ret.v = DEFAULT_SOURCE_TAG
        /\ language \in {Some(<<"h", "i">>), Some(<<"H", "I">>), Some(<<"h", "i", "-", "I">>)}
              => ret.v = "hin_Deva"

\* C5 witness: an upper-case code with a region suffix resolved through the
\* table to a tag that is not the default.
C5_Witness ==
    /\ ret.op = "lang_tag"
    /\ language = Some(<<"E", "N", "-", "x">>)
    /\ ret.v = "eng_Latn"

\* C8: a translate_text call on a text that is blank or holds no Devanagari
\* letter returns the text, gives nothing to the engine and enters no load:
\* the service's fields and the number of loads are what they were when the
\* call began; and translate_blocks gives a block of text "" the
\* translated_text "".
FastPathText(t) == Strip(t) = <<>> \/ ~HasDevanagari(t)

C8_FastPath ==
    /\ (ret.op = "translate_text" /\ FastPathText(text)) =>
          /\ ~ret.raised
          /\ ret.v = text
          /\ sent = <<>>
          /\ Svc = before.s
          /\ loads = before.loads
    /\ (ret.op = "translate_blocks" /\ ~ret.raised) =>
          \A i \in 1..Len(ret.v) :
              blocks[i].text = <<>> => ret.v[i].translated_text = <<>>

\* C8 witness: a never-loaded service with a model configured returned a
\* blank, non-empty text and is still never-loaded.
C8_Witness ==
    /\ ret.op = "translate_text"
    /\ text = <<"SP">>
    /\ ret.v = <<"SP">>
    /\ translation_model
    /\ before.s = Unloaded
    /\ Svc = Unloaded

AllReturned == \A t \in Threads : threads[t].pc = "done"

C10_LoadSerialized ==
    /\ Cardinality({t \in Threads : threads[t].loaded}) <= 1
    /\ (AllReturned /\ model) => available

IsMultiScript(ocr_langs) == SecondaryCodes(ocr_langs) # {}

\* the pages extract attempts: those within the page cap
AttemptedPages == 1..TotalPages(Len(pdf.pages), max_pages)

\* page n rendered and its OCR call failed for a missing secondary pack
MissingSecondaryPack(n) ==
    /\ pdf.pages[n].get
    /\ pdf.pages[n].render
    /\ pdf.pages[n].ocr.kind = "failed_loading"
    /\ pdf.pages[n].ocr.lang \in SecondaryCodes(OcrLanguagesOf(ocr_languages))

\* the text the fallback owes the page: the English-only text, or ""
FallbackText(n) ==
    IF pdf.pages[n].retry.kind = "text" THEN OcrText(pdf.pages[n].retry.text) ELSE <<>>

\* C6: in OCR mode, under every multi-script profile, a page that renders and
\* whose OCR call fails for a missing secondary language pack has a block in
\* the extraction, with the text of the English-only retry when the retry
\* succeeds and with empty text when it fails.
C6_OcrFallback ==
    (/\ extraction # NoRet
     /\ enable_ocr
     /\ ~extraction.raised
     /\ IsMultiScript(OcrLanguagesOf(ocr_languages)))
    => \A n \in AttemptedPages :
          MissingSecondaryPack(n)
          => \E i \in DOMAIN extraction.blocks :
                /\ extraction.blocks[i].page_number = n
                /\ extraction.blocks[i].text = FallbackText(n)

SameContent(o, e) ==
    /\ Len(o) = Len(e)
    /\ \A i \in DOMAIN o :
          /\ e[i].page = o[i].page
          /\ e[i].source_language = o[i].language
          /\ e[i].text = o[i].text

\* C7: with the translation engine unavailable, process_pdf is not ended by
\* the translation, it writes both artifacts before it returns, and the
\* english artifact has, page by page, the page number, language and text of
\* the original artifact.
C7_EnglishEqualsOriginal ==
    ~available
    => /\ phase = "raised" => extraction.raised
       /\ (phase = "next" /\ done > 0) => (original # None /\ english # None)
       /\ (original # None /\ english # None) => SameContent(original[1], english[1])

\* the blocks of the extraction whose page_number is n
BlocksOfPage(n) == {i \in DOMAIN extraction.blocks : extraction.blocks[i].page_number = n}

\* page n can be read: it is got, rendered and its OCR call returns text
ReadablePage(n) ==
    /\ pdf.pages[n].get
    /\ pdf.pages[n].render
    /\ pdf.pages[n].ocr.kind = "text"

\* C11: in OCR mode, whatever error a page meets while it is accessed,
\* rendered or OCR-ed, extract returns normally and the later pages within
\* the page cap are still attempted (a readable page has its block).
C11_BadPageNeverAborts ==
    (extraction # NoRet /\ enable_ocr /\ pdf.opens)
    => /\ ~extraction.raised
       /\ \A n \in AttemptedPages : ReadablePage(n) => BlocksOfPage(n) # {}

\* page n's render or OCR step failed, and not for a missing secondary pack
FailedOtherwise(n) ==
    /\ pdf.pages[n].get
    /\ \/ ~pdf.pages[n].render
       \/ /\ pdf.pages[n].ocr.kind \in {"failed_loading", "tesseract_error", "error"}
          /\ ~MissingSecondaryPack(n)

\* C12: in OCR mode a page whose render or OCR step fails for a reason
\* other than a missing secondary language pack has no block in the
\* extraction.
C12_FailedPageOmitted ==
    (extraction # NoRet /\ enable_ocr /\ ~extraction.raised)
    => \A n \in AttemptedPages : FailedOtherwise(n) => BlocksOfPage(n) = {}

\* C13: in either extraction mode, when the document cannot be opened extract
\* returns an extraction with zero blocks and raises nothing, and process_pdf
\* writes both artifacts with an empty pages list.
C13_OpenFailureNotFatal ==
    (~pdf.opens /\ extraction # NoRet)
    => /\ ~extraction.raised
       /\ extraction.blocks = <<>>
       /\ phase # "raised"
       /\ original # None => original = Some(<<>>)
       /\ english # None => english = Some(<<>>)
       /\ phase = "next" => (original # None /\ english # None)

PageNumbers == {extraction.blocks[i].page_number : i \in DOMAIN extraction.blocks}

\* page n was skipped by the OCR loop: it could not be got or rendered
SkippedPage(n) == enable_ocr /\ (~pdf.pages[n].get \/ ~pdf.pages[n].render)

\* C14 as stated: in every extraction extract returns, in either mode and
\* under any per-page failures, the i-th block has page_number i.
C14_NoGaps ==
    (extraction # NoRet /\ ~extraction.raised)
    => \A i \in DOMAIN extraction.blocks : extraction.blocks[i].page_number = i

\* C14 amended: in every extraction extract returns the page numbers are the
\* 1-based numbers of the physical pages within the page cap, strictly
\* increasing, and the only numbers left out are those of the pages the OCR
\* loop could not get or render; in native mode the i-th block has
\* page_number i.
C14_PageNumbers ==
    (extraction # NoRet /\ ~extraction.raised)
    => /\ PageNumbers \subseteq AttemptedPages
       /\ \A i, j \in DOMAIN extraction.blocks :
             i < j => extraction.blocks[i].page_number < extraction.blocks[j].page_number
       /\ \A n \in AttemptedPages \ PageNumbers : SkippedPage(n)
       /\ ~enable_ocr
          => \A i \in DOMAIN extraction.blocks : extraction.blocks[i].page_number = i

\* a page was skipped and a later page has its block
C14_Witness ==
    /\ extraction # NoRet
    /\ ~extraction.raised
    /\ Len(pdf.pages) = 2
    /\ SkippedPage(1)
    /\ PageNumbers = {2}

\* the page numbers an artifact lists, in the order of its entries
PagesListed(pages) == [i \in DOMAIN pages |-> pages[i].page]

BlockPageNumbers == [i \in DOMAIN extraction.blocks |-> extraction.blocks[i].page_number]

\* C15: each artifact process_pdf writes has exactly one entry per extracted
\* block, and the english artifact lists the page numbers of the original
\* artifact in the same, ascending, order.
C15_ArtifactsAligned ==
    /\ original # None => PagesListed(original[1]) = BlockPageNumbers
    /\ english # None => PagesListed(english[1]) = BlockPageNumbers
    /\ (original # None /\ english # None)
       => /\ PagesListed(english[1]) = PagesListed(original[1])
          /\ \A i, j \in DOMAIN english[1] : i < j => english[1][i].page < english[1][j].page

\* both artifacts of a two-page document are written, one page left empty by
\* the extraction and one translated by the engine
C15_Witness ==
    /\ original # None
    /\ english # None
    /\ Len(english[1]) = 2
    /\ \E i \in {1, 2} : original[1][i].text = <<>>
    /\ \E i \in {1, 2} : english[1][i].text # original[1][i].text
    /\ available

\* C18: the process command handles its documents one after the other and
\* each in phase order: a document's extraction returns before its
\* translation starts, the translation returns before either artifact is
\* written, and the next document is taken up only after both artifacts of
\* the previous one are written.
C18_SerialPhases ==
    [][/\ (extraction' # extraction /\ extraction' # NoRet)
          => (ret = NoRet /\ original = None /\ english = None)
       /\ (ret' # ret /\ ret' # NoRet)
          => (extraction # NoRet /\ ~extraction.raised /\ original = None /\ english = None)
       /\ ((original' # original /\ original' # None) \/ (english' # english /\ english' # None))
          => (extraction # NoRet /\ ret # NoRet /\ ~ret.raised)
       /\ (phase' = "extract" /\ done > 0)
          => (original # None /\ english # None /\ phase = "next")
       /\ done' # done
          => (done' = done + 1 /\ original # None /\ english # None)]_vars

\* the second document is being written after its translation by the engine
C18_Witness ==
    /\ done = 1
    /\ phase = "write"
    /\ original # None
    /\ english = None
    /\ sent # <<>>

\* C17: for a text with a non-whitespace character and whatever the engine
\* decodes, the result of translate_text is not empty; when the reassembled
\* text is empty the result is the original text, unchanged.
C17_NeverEmpty ==
    (ret.op = "translate_text" /\ ~ret.raised /\ Strip(text) # <<>>)
    => /\ ret.v # <<>>
       /\ ret.joined = Some(<<>>) => ret.v = text

\* the engine was called and decoded every chunk to the empty string
C17_Witness ==
    /\ ret.op = "translate_text"
    /\ ~ret.raised
    /\ available
    /\ sent # <<>>
    /\ Len(text) > 1
    /\ ret.joined = Some(<<>>)
    /\ ret.v = text

\* the length of the first line of a chunk (a chunk is lines joined by "LF")
RECURSIVE FirstLineLen(_)
FirstLineLen(c) ==
    IF c = <<>> \/ Head(c) = "LF" THEN 0 ELSE 1 + FirstLineLen(Tail(c))

\* C19: _chunk_text starts a new chunk before a line only when the line does
\* not fit: for adjacent chunks c and d, the first chunk included,
\* len(c) + 1 + len(first line of d) > max_chars.
C19_Greedy ==
    ret.op = "chunk_text" =>
        \A i \in 1..(Len(ret.v) - 1) :
            Len(ret.v[i]) + 1 + FirstLineLen(ret.v[i + 1]) > max_chars

\* the lines of a chunk: it is split at every "LF" and nowhere else
RECURSIVE LinesOfChunk(_, _)
LinesOfChunk(c, line) ==
    IF c = <<>> THEN <<line>>
    ELSE IF Head(c) = "LF" THEN <<line>> \o LinesOfChunk(Tail(c), <<>>)
    ELSE LinesOfChunk(Tail(c), Append(line, Head(c)))

RECURSIVE LinesOfChunks(_)
LinesOfChunks(chunks) ==
    IF chunks = <<>> THEN <<>>
    ELSE LinesOfChunk(Head(chunks), <<>>) \o LinesOfChunks(Tail(chunks))

\* C20: every line of the text lies whole in exactly one chunk of
\* _chunk_text: the lines of the chunks, chunk after chunk, are the lines of
\* the text in their order, and the chunks joined by a newline are the lines
\* joined by a newline.
C20_LinesKept ==
    ret.op = "chunk_text" =>
        /\ LinesOfChunks(ret.v) = SplitLines(text)
        /\ JoinLF(ret.v) = JoinLF(SplitLines(text))

\* several chunks, one of several lines, one of an empty line
C20_Witness ==
    /\ ret.op = "chunk_text"
    /\ Len(ret.v) >= 2
    /\ \E i \in 1..Len(ret.v) : NumLines(ret.v[i]) > 1
    /\ \E i \in 1..Len(SplitLines(text)) : SplitLines(text)[i] = <<>>

\* the segments i.. of segs that have no Devanagari occur in r from
\* position from on, whole, one after the other in their order
RECURSIVE OccurInOrder(_, _, _, _)
OccurInOrder(r, segs, i, from) ==
    IF i > Len(segs) THEN TRUE
    ELSE IF segs[i].flag THEN OccurInOrder(r, segs, i + 1, from)
    ELSE \E p \in from..(Len(r) - Len(segs[i].text) + 1) :
            /\ SubSeq(r, p, p + Len(segs[i].text) - 1) = segs[i].text
            /\ OccurInOrder(r, segs, i + 1, p + Len(segs[i].text))

\* C16: for a text with Devanagari, translated by a loaded engine, every
\* segment without Devanagari stands in the result of translate_text
\* character for character, leading and trailing whitespace included, at its
\* place among the other segments.
C16_NonTargetPassThrough ==
    (/\ ret.op = "translate_text"
     /\ ~ret.raised
     /\ available
     /\ HasDevanagari(text))
    => OccurInOrder(ret.v, segment_text(text), 1, 1)

\* the engine inputs of the batches of size `size` of one segment's chunks,
\* batch after batch; a batch of blank chunks makes no invocation
RECURSIVE InvocationsOfBatches(_, _)
InvocationsOfBatches(batches, src_tag) ==
    IF batches = <<>> THEN <<>>
    ELSE (IF PrefixedInputs(Head(batches), src_tag) # <<>>
          THEN <<PrefixedInputs(Head(batches), src_tag)>>
          ELSE <<>>) \o InvocationsOfBatches(Tail(batches), src_tag)

\* the invocations the configured batch size asks for: for each Devanagari
\* segment in turn its chunks in batches of `size`, the last one shorter
RECURSIVE InvocationsAsked(_, _, _)
InvocationsAsked(segments, src_tag, size) ==
    IF segments = <<>> THEN <<>>
    ELSE (IF Head(segments).flag /\ Strip(Head(segments).text) # <<>>
          THEN InvocationsOfBatches(
                   batch_chunks(chunk_text(Head(segments).text, ScaledMaxChars), size), src_tag)
          ELSE <<>>) \o InvocationsAsked(Tail(segments), src_tag, size)

\* C21: every engine invocation of translate_text receives at most
\* settings.batch_size chunks, and the invocations are the chunks of each
\* segment, in their order, in batches of exactly settings.batch_size but
\* for the last batch of the segment.
C21_BatchSizeConfigured ==
    (ret.op = "translate_text" /\ ~ret.raised /\ available)
    => /\ \A i \in DOMAIN sent : Len(sent[i]) <= batch_size
       /\ sent = InvocationsAsked(segment_text(text), lang_tag(language), batch_size)

\* C22: download_record returns the existing target path as already
\* downloaded only if an earlier download of the record wrote the whole
\* file; a download that failed leaves no file that a later call accepts.
C22_SkipOnlyComplete ==
    /\ dl.result = "skipped" => completed
    /\ stored => completed

====
